---- MODULE Spec2Model ----
(***************************************************************************)
(* Model of lab2/algorithm.py: the direct solvers pivot_gauss and          *)
(* lu_decomposition_doolittle, the convergence checks, and the iterative   *)
(* solvers jacobi, gauss_seidel, successive_over_relaxation and            *)
(* conjugate_gradient.                                                     *)
(*                                                                         *)
(* Numbers.  A numpy float64 is modelled by an exact extended rational     *)
(* <<n, d, k>> standing for (n / d) * eps^k with eps = 1e-6 (the module    *)
(* constant of algorithm.py), d > 0, gcd(n, d) = 1 and k >= 0.             *)
(* The IEEE special values, which numpy produces instead of raising on a   *)
(* division by zero, are <<1,0,0>> (+inf), <<-1,0,0>> (-inf) and           *)
(* <<0,0,0>> (nan).  Rounding is not modelled: every finite result is the  *)
(* exact one.  Signed zeros are not distinguished (x / 0 is +inf for       *)
(* x > 0).  The exponent k lets products of eps-sized quantities stay      *)
(* inside the integers the model checker works in.                         *)
(***************************************************************************)
EXTENDS Integers, Sequences, FiniteSets, TLC

EpsInv == 1000000

\* ------------------------------------------------------------------------
\* Integer helpers
\* ------------------------------------------------------------------------
AbsI(i) == IF i < 0 THEN -i ELSE i

SignI(i) == IF i < 0 THEN -1 ELSE IF i = 0 THEN 0 ELSE 1

MaxI(i, j) == IF i < j THEN j ELSE i

RECURSIVE GCD(_, _)
GCD(a, b) == IF b = 0 THEN a ELSE GCD(b, a % b)

\* n1/d1 < n2/d2 for n >= 0, d > 0, by continued fractions (no products).
RECURSIVE FracLt(_, _, _, _)
FracLt(n1, d1, n2, d2) ==
    LET q1 == n1 \div d1
        q2 == n2 \div d2
        r1 == n1 % d1
        r2 == n2 % d2
    IN  IF q1 # q2 THEN q1 < q2
        ELSE IF r2 = 0 THEN FALSE
        ELSE IF r1 = 0 THEN TRUE
        ELSE FracLt(d2, r2, d1, r1)

\* ------------------------------------------------------------------------
\* Extended rationals (float64 values)
\* ------------------------------------------------------------------------
Zero == <<0, 1, 0>>
One == <<1, 1, 0>>
PosInf == <<1, 0, 0>>
NegInf == <<-1, 0, 0>>
NaN == <<0, 0, 0>>

\* eps = 1e-6
eps == <<1, 1, 1>>

Int2Num(i) == <<i, 1, 0>>

IsFin(a) == a[2] # 0
IsNaN(a) == a[2] = 0 /\ a[1] = 0
IsInf(a) == a[2] = 0 /\ a[1] # 0
IsZero(a) == a[2] # 0 /\ a[1] = 0

\* Move whole factors of 1/eps out of the denominator into the exponent.
RECURSIVE Strip(_, _, _)
Strip(n, d, k) ==
    IF d % EpsInv = 0 THEN Strip(n, d \div EpsInv, k + 1) ELSE <<n, d, k>>

\* Move whole factors of 1/eps out of the numerator, lowering the exponent.
RECURSIVE Lift(_, _, _)
Lift(n, d, k) ==
    IF k > 0 /\ n % EpsInv = 0 THEN Lift(n \div EpsInv, d, k - 1) ELSE <<n, d, k>>

\* The triple of (n / d) * eps^k, d any integer: n / d in lowest terms, with
\* whole factors of eps moved into the exponent.
Canon(n, d, k) ==
    IF d = 0 THEN <<SignI(n), 0, 0>>
    ELSE IF n = 0 THEN Zero
    ELSE LET s == IF d < 0 THEN -1 ELSE 1
             g == GCD(AbsI(n), AbsI(d))
             t == Strip((s * n) \div g, (s * d) \div g, k)
         IN  Lift(t[1], t[2], t[3])

\* (n/d) * (1/eps)^j as a reduced pair <<n', d'>>.
RECURSIVE ScaleUp(_, _, _)
ScaleUp(n, d, j) ==
    IF j = 0 THEN <<n, d>>
    ELSE LET g == GCD(EpsInv, d)
         IN  ScaleUp(n * (EpsInv \div g), d \div g, j - 1)

Neg(a) == <<-a[1], a[2], a[3]>>

AbsN(a) == <<AbsI(a[1]), a[2], a[3]>>

Mul(a, b) ==
    IF a[2] = 0 \/ b[2] = 0 THEN <<SignI(a[1]) * SignI(b[1]), 0, 0>>
    ELSE IF a[1] = 0 \/ b[1] = 0 THEN Zero
    ELSE LET g1 == GCD(AbsI(a[1]), b[2])
             g2 == GCD(AbsI(b[1]), a[2])
         IN  Canon((a[1] \div g1) * (b[1] \div g2),
                   (a[2] \div g2) * (b[2] \div g1), a[3] + b[3])

Add(a, b) ==
    IF a[2] = 0 /\ b[2] = 0 THEN (IF a = b THEN a ELSE NaN)
    ELSE IF a[2] = 0 THEN a
    ELSE IF b[2] = 0 THEN b
    ELSE IF a[1] = 0 THEN b
    ELSE IF b[1] = 0 THEN a
    ELSE LET k == MaxI(a[3], b[3])
             x == ScaleUp(a[1], a[2], k - a[3])
             y == ScaleUp(b[1], b[2], k - b[3])
             g == GCD(x[2], y[2])
             l == (x[2] \div g) * y[2]
         IN  Canon(x[1] * (l \div x[2]) + y[1] * (l \div y[2]), l, k)

Sub(a, b) == Add(a, Neg(b))

\* IEEE division: x/0 is +-inf, 0/0 and inf/inf are nan, x/inf is 0.
Div(a, b) ==
    IF a[2] # 0 /\ b[2] # 0 /\ b[1] # 0
    THEN IF a[1] = 0 THEN Zero
         ELSE LET s == SignI(b[1])
                  g1 == GCD(AbsI(a[1]), AbsI(b[1]))
                  g2 == GCD(a[2], b[2])
                  n == ((s * a[1]) \div g1) * (b[2] \div g2)
                  d == (a[2] \div g2) * (AbsI(b[1]) \div g1)
              IN  IF a[3] >= b[3] THEN Canon(n, d, a[3] - b[3])
                  ELSE LET u == ScaleUp(n, d, b[3] - a[3])
                       IN  Canon(u[1], u[2], 0)
    ELSE Mul(a, IF b[2] = 0 THEN (IF b[1] = 0 THEN NaN ELSE Zero)
                ELSE IF b[1] = 0 THEN PosInf
                ELSE <<SignI(b[1]), 1, 0>>)

\* a < b for finite a, b > 0.
PosLt(a, b) ==
    IF a[3] = b[3] THEN FracLt(a[1], a[2], b[1], b[2])
    ELSE IF a[3] < b[3]
    THEN IF a[1] >= a[2] /\ (b[1] \div EpsInv) < b[2] THEN FALSE
         ELSE LET x == ScaleUp(a[1], a[2], b[3] - a[3])
              IN  FracLt(x[1], x[2], b[1], b[2])
    ELSE IF b[1] >= b[2] /\ (a[1] \div EpsInv) < a[2] THEN TRUE
         ELSE LET y == ScaleUp(b[1], b[2], a[3] - b[3])
              IN  FracLt(a[1], a[2], y[1], y[2])

\* IEEE comparisons: every comparison with nan is false.
Lt(a, b) ==
    IF IsNaN(a) \/ IsNaN(b) \/ a = b THEN FALSE
    ELSE IF a = NegInf \/ b = PosInf THEN TRUE
    ELSE IF a = PosInf \/ b = NegInf THEN FALSE
    ELSE LET sa == SignI(a[1])
             sb == SignI(b[1])
         IN  IF sa # sb THEN sa < sb
             ELSE IF sa > 0 THEN PosLt(a, b)
             ELSE PosLt(Neg(b), Neg(a))

\* a == b on values (two triples may stand for one value).
Eq(a, b) == ~IsNaN(a) /\ ~IsNaN(b) /\ ~Lt(a, b) /\ ~Lt(b, a)

Le(a, b) == Lt(a, b) \/ Eq(a, b)

\* x != 0.0 in IEEE arithmetic (nan != 0.0 is true).
Ne(a, b) == ~Eq(a, b)

\* ------------------------------------------------------------------------
\* Arrays: a vector is a sequence of numbers, a matrix a sequence of rows.
\* Indices are 1-based here and 0-based in the source.
\* ------------------------------------------------------------------------
\* s = 0; for t in order: s += f(t)
RECURSIVE SumTo(_, _)
SumTo(terms, m) == IF m = 0 THEN Zero ELSE Add(SumTo(terms, m - 1), terms[m])

SumSeq(terms) == SumTo(terms, Len(terms))

\* numpy.dot of two vectors
dot(u, v) == SumSeq([t \in 1..Len(u) |-> Mul(u[t], v[t])])

\* numpy.dot(p.T, A): a row vector times a matrix
VecMat(v, A) ==
    [j \in 1..Len(A) |-> SumSeq([i \in 1..Len(v) |-> Mul(v[i], A[i][j])])]

\* numpy.dot(A, v): a matrix times a vector
MatVec(A, v) == [i \in 1..Len(A) |-> dot(A[i], v)]

\* numpy.dot(A, B) of two square matrices
MatMul(A, B) ==
    [i \in 1..Len(A) |->
        [j \in 1..Len(A) |-> SumSeq([t \in 1..Len(A) |-> Mul(A[i][t], B[t][j])])]]

VecAdd(u, v) == [i \in 1..Len(u) |-> Add(u[i], v[i])]
VecSub(u, v) == [i \in 1..Len(u) |-> Sub(u[i], v[i])]
VecScale(c, v) == [i \in 1..Len(v) |-> Mul(c, v[i])]
MatScale(c, A) == [i \in 1..Len(A) |-> VecScale(c, A[i])]
MatAdd(A, B) == [i \in 1..Len(A) |-> VecAdd(A[i], B[i])]
MatSub(A, B) == [i \in 1..Len(A) |-> VecSub(A[i], B[i])]
MatNeg(A) == [i \in 1..Len(A) |-> [j \in 1..Len(A) |-> Neg(A[i][j])]]

\* numpy.eye(n), numpy.zeros(n), numpy.zeros((n, n))
eye(n) == [i \in 1..n |-> [j \in 1..n |-> IF i = j THEN One ELSE Zero]]
zeros(n) == [i \in 1..n |-> Zero]
zeros2(n) == [i \in 1..n |-> zeros(n)]

\* numpy.tril(A, -1) and numpy.triu(A, 1)
tril(A) == [i \in 1..Len(A) |-> [j \in 1..Len(A) |-> IF j < i THEN A[i][j] ELSE Zero]]
triu(A) == [i \in 1..Len(A) |-> [j \in 1..Len(A) |-> IF j > i THEN A[i][j] ELSE Zero]]

\* D = eye(n); for i: D[i, i] = A[i, i]
DiagPart(A) ==
    [i \in 1..Len(A) |-> [j \in 1..Len(A) |-> IF i = j THEN A[i][i] ELSE Zero]]

HasNaN(v) == \E i \in 1..Len(v) : IsNaN(v[i])
AllFinite(v) == \A i \in 1..Len(v) : IsFin(v[i])

\* The matrix without row i and column j.
Minor(A, i, j) ==
    [r \in 1..(Len(A) - 1) |->
        [c \in 1..(Len(A) - 1) |->
            A[IF r < i THEN r ELSE r + 1][IF c < j THEN c ELSE c + 1]]]

\* Determinant, by expansion along the first row.
RECURSIVE Det(_)
Det(A) ==
    IF Len(A) = 0 THEN One
    ELSE IF Len(A) = 1 THEN A[1][1]
    ELSE SumSeq([j \in 1..Len(A) |->
            Mul(IF j % 2 = 1 THEN A[1][j] ELSE Neg(A[1][j]), Det(Minor(A, 1, j)))])

\* numpy.linalg.inv raises LinAlgError on an exactly singular matrix.
Singular(A) == IsZero(Det(A))

\* numpy.linalg.inv(A) for a non-singular A: adj(A) / det(A), which is the
\* value LAPACK's factorisation returns in exact arithmetic.
inv(A) ==
    [i \in 1..Len(A) |->
        [j \in 1..Len(A) |->
            Div(Mul(IF (i + j) % 2 = 0 THEN One ELSE Neg(One), Det(Minor(A, j, i))),
                Det(A))]]

\* linalg.norm(x - y) <= eps.  The norm is at least every |x[i] - y[i]|, so
\* one component above eps decides the test; otherwise the squares are summed
\* (sqrt is monotone: norm <= eps iff the sum of squares <= eps * eps).
NormWithinEps(x, y) ==
    LET dv == VecSub(x, y)
    IN  /\ \A i \in 1..Len(dv) : Le(AbsN(dv[i]), eps)
        /\ Le(SumSeq([i \in 1..Len(dv) |-> Mul(dv[i], dv[i])]), Mul(eps, eps))

\* ------------------------------------------------------------------------
\* pivot_gauss
\* ------------------------------------------------------------------------
\* A[[i, j], :] = A[[j, i], :]   (also b[[i, j]] = b[[j, i]])
SwapRows(A, i, j) == [A EXCEPT ![i] = A[j], ![j] = A[i]]

\* The test that triggers the row swap: A[j, i] > A[i, i], on raw values.
SwapWanted(A, i, j) == Lt(A[i][i], A[j][i])

\* One pass of the body of the inner loop (lines 31-37) for the pair (i, j):
\* the conditional swap, then the conditional elimination of row j.
\* divided tells whether the multiplier m was computed, pivot its divisor.
GaussInner(A, b, i, j) ==
    LET sw == SwapWanted(A, i, j)
        A1 == IF sw THEN SwapRows(A, i, j) ELSE A
        b1 == IF sw THEN SwapRows(b, i, j) ELSE b
        el == Ne(A1[j][i], Zero)
        m  == Div(A1[j][i], A1[i][i])
        A2 == IF el
              THEN [A1 EXCEPT ![j] =
                       [c \in 1..Len(A) |->
                           IF c >= i THEN Sub(A1[j][c], Mul(m, A1[i][c]))
                           ELSE A1[j][c]]]
              ELSE A1
        b2 == IF el THEN [b1 EXCEPT ![j] = Sub(b1[j], Mul(m, b1[i]))] ELSE b1
    IN  [A |-> A2, b |-> b2, divided |-> el, pivot |-> A1[i][i]]

\* Back substitution with the slices one column off: (k + 2):n.
RECURSIVE BackSubstSliceOff(_, _, _)
BackSubstSliceOff(A, b, k) ==
    IF k = 0 THEN b
    ELSE LET n == Len(A)
             s == SumSeq([t \in 1..MaxI(n - k - 1, 0) |-> Mul(A[k][k + 1 + t], b[k + 1 + t])])
         IN  BackSubstSliceOff(A, [b EXCEPT ![k] = Div(Sub(b[k], s), A[k][k])], k - 1)

\* for k in range(n - 1, -1, -1):
\*     b[k] = (b[k] - dot(A[k, (k + 1):n], b[(k + 1):n])) / A[k, k]
RECURSIVE BackSubst(_, _, _)
BackSubst(A, b, k) ==
    IF k = 0 THEN b
    ELSE LET n == Len(A)
             s == SumSeq([t \in 1..(n - k) |-> Mul(A[k][k + t], b[k + t])])
         IN  BackSubst(A, [b EXCEPT ![k] = Div(Sub(b[k], s), A[k][k])], k - 1)

\* ------------------------------------------------------------------------
\* lu_decomposition_doolittle
\* ------------------------------------------------------------------------
\* The stage with `for t in range(0, k - 1)` in the sum for u[k, j].
LUStageShortSum(A, l, u, k) ==
    LET n  == Len(A)
        uk == [j \in 1..n |->
                 IF j >= k
                 THEN Sub(A[k][j], SumSeq([t \in 1..MaxI(k - 2, 0) |-> Mul(l[k][t], u[t][j])]))
                 ELSE u[k][j]]
        u1 == [u EXCEPT ![k] = uk]
        l1 == [i \in 1..n |->
                 IF i > k
                 THEN [l[i] EXCEPT ![k] =
                         Div(Sub(A[i][k],
                                 SumSeq([t \in 1..(k - 1) |-> Mul(l[i][t], u1[t][k])])),
                             u1[k][k])]
                 ELSE l[i]]
    IN  [l |-> l1, u |-> u1]

\* One pass of the loop over k (lines 56-65): row k of u, then column k of l.
LUStage(A, l, u, k) ==
    LET n  == Len(A)
        uk == [j \in 1..n |->
                 IF j >= k
                 THEN Sub(A[k][j], SumSeq([t \in 1..(k - 1) |-> Mul(l[k][t], u[t][j])]))
                 ELSE u[k][j]]
        u1 == [u EXCEPT ![k] = uk]
        l1 == [i \in 1..n |->
                 IF i > k
                 THEN [l[i] EXCEPT ![k] =
                         Div(Sub(A[i][k],
                                 SumSeq([t \in 1..(k - 1) |-> Mul(l[i][t], u1[t][k])])),
                             u1[k][k])]
                 ELSE l[i]]
    IN  [l |-> l1, u |-> u1]

\* y = zeros(n); for i: y[i] = b[i] - sum_{j<i} l[i, j] * y[j]
RECURSIVE ForwardSubst(_, _, _, _)
ForwardSubst(l, b, yv, i) ==
    IF i > Len(l) THEN yv
    ELSE ForwardSubst(l, b,
            [yv EXCEPT ![i] =
                Sub(b[i], SumSeq([j \in 1..(i - 1) |-> Mul(l[i][j], yv[j])]))],
            i + 1)

\* x = zeros(n); for i reversed: x[i] = (y[i] - sum_{j>i} u[i, j] * x[j]) / u[i, i]
RECURSIVE UpperSubst(_, _, _, _)
UpperSubst(u, yv, xv, i) ==
    IF i = 0 THEN xv
    ELSE LET n == Len(u)
             s == SumSeq([t \in 1..(n - i) |-> Mul(u[i][i + t], xv[i + t])])
         IN  UpperSubst(u, yv, [xv EXCEPT ![i] = Div(Sub(yv[i], s), u[i][i])], i - 1)

LUSolve(l, u, b) ==
    UpperSubst(u, ForwardSubst(l, b, zeros(Len(l)), 1), zeros(Len(l)), Len(l))

\* ------------------------------------------------------------------------
\* Convergence checks
\* ------------------------------------------------------------------------
\* rho(B) < 1 + s * eps for s in {1, -1}, rho the largest |eigenvalue| of B
\* (linalg.norm(linalg.eigvals(B), ord=inf)).  With c = 1 + s * eps, for a
\* 1x1 matrix this is |B[0,0]| < c; for a 2x2 matrix with characteristic
\* polynomial z^2 + a1 z + a0 (a1 = -trace, a0 = det) both roots lie in the
\* open disc of radius c iff |a0| < c^2 and |a1| c < c^2 + a0 (Schur-Cohn),
\* each written here divided by eps so that no eps^2 is added to a unit.
RadiusBelow(B, s) ==
    CASE Len(B) = 1 ->
            Lt(AbsN(B[1][1]), Add(One, Mul(Int2Num(s), eps)))
      [] Len(B) = 2 ->
            LET a1 == Neg(Add(B[1][1], B[2][2]))
                a0 == Det(B)
                t0 == Sub(One, AbsN(a0))
                t1 == Sub(Add(One, a0), AbsN(a1))
            IN  /\ Lt(Neg(eps), Add(Div(t0, eps), Int2Num(2 * s)))
                /\ Lt(Neg(eps),
                      Add(Div(t1, eps), Mul(Int2Num(s), Sub(Int2Num(2), AbsN(a1)))))

\* if spectral_radius - 1 >= eps or 1 - spectral_radius <= eps: return False
check_spectral_radius(B) ==
    IF ~RadiusBelow(B, 1) \/ ~RadiusBelow(B, -1) THEN "False" ELSE "True"

\* B = -dot(linalg.inv(D), L + U)
JacobiMatrix(A) == MatNeg(MatMul(inv(DiagPart(A)), MatAdd(tril(A), triu(A))))

\* B = -dot(linalg.inv(D + L), U)
GaussSeidelMatrix(A) == MatNeg(MatMul(inv(MatAdd(DiagPart(A), tril(A))), triu(A)))

\* B = dot(linalg.inv(D + dot(w, L)), (1 - w) * D - dot(w, U))
SorMatrix(A, w) ==
    MatMul(inv(MatAdd(DiagPart(A), MatScale(w, tril(A)))),
           MatSub(MatScale(Sub(One, w), DiagPart(A)), MatScale(w, triu(A))))

\* The checks return "True" or "False", or end in "LinAlgError" when
\* linalg.inv is handed a singular matrix.
check_jacobi_convergency(A) ==
    IF Singular(DiagPart(A)) THEN "LinAlgError"
    ELSE check_spectral_radius(JacobiMatrix(A))

check_gauss_seidel_convergency(A) ==
    IF Singular(MatAdd(DiagPart(A), tril(A))) THEN "LinAlgError"
    ELSE check_spectral_radius(GaussSeidelMatrix(A))

check_successive_over_relaxation_convergency(A, w) ==
    IF Singular(MatAdd(DiagPart(A), MatScale(w, tril(A)))) THEN "LinAlgError"
    ELSE check_spectral_radius(SorMatrix(A, w))

\* The principal submatrix of A on the rows and columns in S.
RECURSIVE Pick(_, _)
Pick(S, m) ==
    IF m = 0 THEN <<>>
    ELSE IF m \in S THEN Append(Pick(S, m - 1), m) ELSE Pick(S, m - 1)

Principal(A, S) ==
    LET ix == Pick(S, Len(A))
    IN  [r \in 1..Len(ix) |-> [c \in 1..Len(ix) |-> A[ix[r]][ix[c]]]]

\* (A.T == A).all()
IsSymmetric(A) == \A i, j \in 1..Len(A) : Eq(A[j][i], A[i][j])

\* any(linalg.eigvals(A) < 0) for a symmetric A: some eigenvalue is negative
\* iff some principal minor is negative.
AnyNegativeEigenvalue(A) ==
    \E S \in SUBSET (1..Len(A)) : S # {} /\ Lt(Det(Principal(A, S)), Zero)

check_symmetric_and_positive_definite_matrix(A) ==
    IF ~IsSymmetric(A) THEN "False"
    ELSE IF AnyNegativeEigenvalue(A) THEN "False"
    ELSE "True"

\* ------------------------------------------------------------------------
\* The loop bodies of the iterative solvers
\* ------------------------------------------------------------------------
\* s = 0; for j in range(n): if j != i: s += A[i, j] * v[j]
OffDiagSum(A, v, i) ==
    SumSeq([j \in 1..Len(A) |-> IF j # i THEN Mul(A[i][j], v[j]) ELSE Zero])

\* jacobi, lines 179-184: every component from the previous iterate y
JacobiSweep(A, b, yv) ==
    [i \in 1..Len(A) |-> Div(Sub(b[i], OffDiagSum(A, yv, i)), A[i][i])]

\* gauss_seidel, lines 132-137: components i.. updated in place
RECURSIVE GaussSeidelFrom(_, _, _, _)
GaussSeidelFrom(A, b, xv, i) ==
    IF i > Len(A) THEN xv
    ELSE GaussSeidelFrom(A, b,
            [xv EXCEPT ![i] = Div(Sub(b[i], OffDiagSum(A, xv, i)), A[i][i])], i + 1)

\* The sweep with `for i in reversed(range(n))`.
RECURSIVE GaussSeidelDownFrom(_, _, _, _)
GaussSeidelDownFrom(A, b, xv, i) ==
    IF i = 0 THEN xv
    ELSE GaussSeidelDownFrom(A, b,
            [xv EXCEPT ![i] = Div(Sub(b[i], OffDiagSum(A, xv, i)), A[i][i])], i - 1)

GaussSeidelSweepReversed(A, b, xv) == GaussSeidelDownFrom(A, b, xv, Len(A))

GaussSeidelSweep(A, b, xv) == GaussSeidelFrom(A, b, xv, 1)

\* successive_over_relaxation, lines 229-234
RECURSIVE SorFrom(_, _, _, _, _)
SorFrom(A, b, w, xv, i) ==
    IF i > Len(A) THEN xv
    ELSE SorFrom(A, b, w,
            [xv EXCEPT ![i] =
                Add(Mul(Sub(One, w), xv[i]),
                    Div(Mul(w, Sub(b[i], OffDiagSum(A, xv, i))), A[i][i]))],
            i + 1)

\* The sweep reading the previous iterate (s += A[i][j] * y[j]), as jacobi does.
SorSweepFromPrevious(A, b, w, xv) ==
    [i \in 1..Len(A) |->
        Add(Mul(Sub(One, w), xv[i]),
            Div(Mul(w, Sub(b[i], OffDiagSum(A, xv, i))), A[i][i]))]

SorSweep(A, b, w, xv) == SorFrom(A, b, w, xv, 1)

\* conjugate_gradient, lines 279-284
CgStep(A, xv, rv, pv) ==
    LET alpha == Div(dot(rv, rv), dot(VecMat(pv, A), pv))
        x1    == VecAdd(xv, VecScale(alpha, pv))
        r1    == VecSub(rv, MatVec(MatScale(alpha, A), pv))
        beta  == Div(dot(r1, r1), dot(rv, rv))
        p1    == VecAdd(r1, VecScale(beta, pv))
    IN  [x |-> x1, r |-> r1, p |-> p1]

\* ------------------------------------------------------------------------
\* Bounds and inputs
\* ------------------------------------------------------------------------
\* The model follows at most MaxIter passes of an iteration loop per call.
MaxIter == 4

\* Matrix entries handed to the solvers are integers up to MaxEntry.
MaxEntry == 2

Solvers ==
    {"pivot_gauss", "lu_decomposition_doolittle", "jacobi", "gauss_seidel",
     "successive_over_relaxation", "conjugate_gradient"}

Nums(S) == {Int2Num(e) : e \in S}

Half == <<1, 2, 0>>

\* Systems for the direct solvers: every 2x2 matrix over -1..MaxEntry, and
\* the 3x3 matrices with a free first column.
DirectMats ==
    {<<<<a, c>>, <<d, e>>>> : a \in Nums(-1..MaxEntry), c \in Nums(-1..MaxEntry),
                              d \in Nums(-1..MaxEntry), e \in Nums(-1..MaxEntry)}
    \cup {<<<<a, One, Zero>>, <<c, Zero, One>>, <<d, One, One>>>> :
            a \in Nums(-1..1), c \in Nums(-1..1), d \in Nums(-1..1)}

\* Systems for the iterative solvers: 1x1 and 2x2 matrices with a diagonal
\* in 0..MaxEntry and off-diagonal entries in -1..1.
IterMats ==
    {<<<<a>>>> : a \in Nums(0..MaxEntry)}
    \cup {<<<<a, c>>, <<d, e>>>> : a \in Nums(0..MaxEntry), c \in Nums(-1..1),
                                   d \in Nums(-1..1), e \in Nums(0..MaxEntry)}

Vecs(n, S) == {[t \in 1..n |-> f[t]] : f \in [1..n -> S]}

\* Right-hand sides and initial guesses: 0/1 vectors, and initial guesses
\* within eps of the solution of the homogeneous system.
Starts(n) ==
    {<<bv, xv>> : bv \in Vecs(n, {Zero, One}), xv \in Vecs(n, {Zero, One})}
    \cup {<<zeros(n), xv>> : xv \in Vecs(n, {Zero, Mul(Half, eps), eps})}

WVals == {One, <<3, 2, 0>>}

Case(pr, Am, st, wv) == [prog |-> pr, A |-> Am, b |-> st[1], x0 |-> st[2], w |-> wv]

Cases ==
    {Case(<<"pivot_gauss", "lu_decomposition_doolittle">>, Am, <<bv, zeros(Len(Am))>>, One) :
        Am \in DirectMats, bv \in Vecs(2, {Zero, One}) \cup Vecs(3, {Zero, One})}
    \cup {Case(<<"jacobi", "gauss_seidel">>, Am, st, One) :
        Am \in IterMats, st \in Starts(1) \cup Starts(2)}
    \cup {Case(<<"gauss_seidel", "successive_over_relaxation">>, Am, st, wv) :
        Am \in IterMats, st \in Starts(1) \cup Starts(2), wv \in WVals}
    \cup {Case(<<"conjugate_gradient">>, Am, st, One) :
        Am \in IterMats, st \in Starts(1) \cup Starts(2)}

\* ------------------------------------------------------------------------
\* State
\* ------------------------------------------------------------------------
VARIABLES
    heap,       \* array objects: the caller's and the ones the solvers allocate
    given,      \* the arguments as the caller built them (never written)
    w,          \* the relaxation factor passed to successive_over_relaxation
    prog,       \* the solver calls the caller still has to make
    pc,         \* control point: "idle" between calls
    A, b, x,    \* the objects the local names A, b, x are bound to
    y,          \* the previous iterate
    cnt,        \* the iteration counter
    i, j,       \* pivot_gauss: loop indices
    k, l, u,    \* lu_decomposition_doolittle: loop index and factors
    r, p,       \* conjugate_gradient: residual and search direction
    ret,        \* what each call returned
    checks,     \* evaluations of the pre-flight check in the current call
    verdict,    \* its outcome
    steps,      \* passes of the iteration loop body in the current call
    zeroPivot,  \* a division by an exactly zero pivot happened in the current call
    stage,      \* pivot_gauss: column i at the start of stage i, last divisor
    trace       \* the iterates each solver produced, pass by pass

vars ==
    <<heap, given, w, prog, pc, A, b, x, y, cnt, i, j, k, l, u, r, p, ret,
      checks, verdict, steps, zeroPivot, stage, trace>>

NoResult ==
    [kind |-> "none", x |-> <<>>, cnt |-> 0, iters |-> 0, checks |-> 0, zdiv |-> FALSE]

NoStage == [col |-> <<>>, divided |-> FALSE, pivot |-> Zero]

Init ==
    \E c \in Cases :
        /\ Len(c.b) = Len(c.A)
        /\ given = [A |-> c.A, b |-> c.b, x0 |-> c.x0]
        /\ w = c.w
        /\ prog = c.prog
        /\ heap = [A |-> c.A, b |-> c.b, x0 |-> c.x0,
                   A_copy |-> <<>>, b_copy |-> <<>>, x_copy |-> <<>>, x_new |-> <<>>]
        /\ pc = "idle"
        /\ A = "none" /\ b = "none" /\ x = "none"
        /\ y = <<>> /\ cnt = 0 /\ i = 0 /\ j = 0 /\ k = 0
        /\ l = <<>> /\ u = <<>> /\ r = <<>> /\ p = <<>>
        /\ ret = [s \in Solvers |-> NoResult]
        /\ checks = 0 /\ verdict = "none" /\ steps = 0 /\ zeroPivot = FALSE
        /\ stage = NoStage
        /\ trace = [s \in Solvers |-> <<>>]

\* `name = arg` in place of `name = arg.copy()`: the local name aliases the
\* caller's array.
CopyRefAliased(src, fresh) == src

\* The object a local name is bound to by `name = arg.copy()`: the fresh one.
CopyRef(src, fresh) == fresh

\* The early return left out: the solver goes on whatever the verdict.
ProceedsRegardless(v) == TRUE

\* `if not check(...): return NaN, NaN`: the solver goes on only when the
\* check returned True.
Proceeds(v) == v = "True"

Calling(s) == pc = "idle" /\ prog # <<>> /\ Head(prog) = s

\* A, b = A.copy(), b.copy()
EnterWithCopies(next) ==
    /\ A' = CopyRef("A", "A_copy")
    /\ b' = CopyRef("b", "b_copy")
    /\ heap' = [heap EXCEPT ![A'] = heap["A"], ![b'] = heap["b"]]
    /\ pc' = next
    /\ x' = "none" /\ y' = <<>> /\ cnt' = 0
    /\ checks' = 0 /\ verdict' = "none" /\ steps' = 0 /\ zeroPivot' = FALSE
    /\ UNCHANGED <<given, w, prog, ret, trace>>

\* The call ends: its result goes to the caller, its locals are gone.
Return(s, res) ==
    /\ ret' = [ret EXCEPT ![s] = res]
    /\ prog' = Tail(prog)
    /\ pc' = "idle"
    /\ A' = "none" /\ b' = "none" /\ x' = "none"
    /\ y' = <<>> /\ cnt' = 0 /\ i' = 0 /\ j' = 0 /\ k' = 0
    /\ l' = <<>> /\ u' = <<>> /\ r' = <<>> /\ p' = <<>>
    /\ checks' = 0 /\ verdict' = "none" /\ steps' = 0 /\ zeroPivot' = FALSE
    /\ stage' = NoStage
    /\ UNCHANGED <<given, w>>

Result(kind, xv, c, it, ch, zd) ==
    [kind |-> kind, x |-> xv, cnt |-> c, iters |-> it, checks |-> ch, zdiv |-> zd]

\* ------------------------------------------------------------------------
\* pivot_gauss(A, b)
\* ------------------------------------------------------------------------
CallPivotGauss ==
    /\ Calling("pivot_gauss")
    /\ EnterWithCopies(IF Len(heap["A"]) >= 2 THEN "pg_inner" ELSE "pg_back")
    /\ i' = 1 /\ j' = 2
    /\ stage' = NoStage
    /\ UNCHANGED <<k, l, u, r, p>>

\* One pass of the inner loop body, lines 31-37.
PivotGaussInner ==
    /\ pc = "pg_inner"
    /\ LET n == Len(heap[A])
           g == GaussInner(heap[A], heap[b], i, j)
       IN  /\ heap' = [heap EXCEPT ![A] = g.A, ![b] = g.b]
           /\ stage' = [col |-> IF j = i + 1
                                THEN [t \in 1..(n - i + 1) |-> heap[A][i + t - 1][i]]
                                ELSE stage.col,
                        divided |-> g.divided,
                        pivot |-> g.pivot]
           /\ zeroPivot' = (zeroPivot \/ (g.divided /\ IsZero(g.pivot)))
           /\ IF j < n THEN /\ i' = i /\ j' = j + 1 /\ pc' = "pg_inner"
              ELSE IF i < n - 1 THEN /\ i' = i + 1 /\ j' = i + 2 /\ pc' = "pg_inner"
              ELSE /\ i' = i /\ j' = j /\ pc' = "pg_back"
    /\ UNCHANGED <<given, w, prog, A, b, x, y, cnt, k, l, u, r, p, ret,
                   checks, verdict, steps, trace>>

\* Back substitution (lines 38-39) and `x = b; return x`.
PivotGaussReturn ==
    /\ pc = "pg_back"
    /\ LET Am == heap[A]
           xv == BackSubst(Am, heap[b], Len(Am))
           zd == zeroPivot \/ \E t \in 1..Len(Am) : IsZero(Am[t][t])
       IN  /\ heap' = [heap EXCEPT ![b] = xv]
           /\ Return("pivot_gauss", Result("ok", xv, 0, 0, 0, zd))
    /\ UNCHANGED trace

\* ------------------------------------------------------------------------
\* lu_decomposition_doolittle(A, b)
\* ------------------------------------------------------------------------
CallLU ==
    /\ Calling("lu_decomposition_doolittle")
    /\ EnterWithCopies("lu_factor")
    /\ k' = 1
    /\ l' = eye(Len(heap["A"]))
    /\ u' = zeros2(Len(heap["A"]))
    /\ UNCHANGED <<i, j, r, p, stage>>

\* One pass of the loop over k, lines 56-65.
LUFactor ==
    /\ pc = "lu_factor"
    /\ LET n == Len(heap[A])
           f == LUStage(heap[A], l, u, k)
       IN  /\ l' = f.l
           /\ u' = f.u
           /\ zeroPivot' = (zeroPivot \/ (k < n /\ IsZero(f.u[k][k])))
           /\ k' = k + 1
           /\ pc' = IF k < n THEN "lu_factor" ELSE "lu_solve"
    /\ UNCHANGED <<heap, given, w, prog, A, b, x, y, cnt, i, j, r, p, ret,
                   checks, verdict, steps, stage, trace>>

\* The two triangular solves (lines 67-79) and `return x`.
LUReturn ==
    /\ pc = "lu_solve"
    /\ LET xv == LUSolve(l, u, heap[b])
           zd == zeroPivot \/ \E t \in 1..Len(u) : IsZero(u[t][t])
       IN  Return("lu_decomposition_doolittle", Result("ok", xv, 0, 0, 0, zd))
    /\ UNCHANGED <<heap, trace>>

NextDirect ==
    \/ CallPivotGauss
    \/ PivotGaussInner
    \/ PivotGaussReturn
    \/ CallLU
    \/ LUFactor
    \/ LUReturn

\* ------------------------------------------------------------------------
\* The stationary iterations: jacobi, gauss_seidel, successive_over_relaxation
\* ------------------------------------------------------------------------
\* The pre-flight check of solver s, with what follows it: the exception
\* leaves the call, a False verdict returns the pair (NaN, NaN) (kind
\* "sentinel"), and otherwise `x = x0.copy(); cnt = 0` enter the loop.
Preflight(s, v, loop) ==
    /\ checks' = checks + 1
    /\ verdict' = v
    /\ IF v = "LinAlgError"
       THEN /\ ret' = [ret EXCEPT ![s] = Result("LinAlgError", <<>>, 0, steps, checks + 1, FALSE)]
            /\ prog' = Tail(prog) /\ pc' = "idle"
            /\ UNCHANGED <<heap, x, cnt>>
       ELSE IF ~Proceeds(v)
       THEN /\ ret' = [ret EXCEPT ![s] = Result("sentinel", <<>>, 0, steps, checks + 1, FALSE)]
            /\ prog' = Tail(prog) /\ pc' = "idle"
            /\ UNCHANGED <<heap, x, cnt>>
       ELSE /\ x' = CopyRef("x0", "x_copy")
            /\ heap' = [heap EXCEPT ![x'] = heap["x0"]]
            /\ cnt' = 0
            /\ pc' = loop
            /\ UNCHANGED <<prog, ret>>
    /\ UNCHANGED <<given, w, A, b, y, i, j, k, l, u, r, p, steps, zeroPivot, stage, trace>>

\* One pass of `while True:` of a stationary solver: y = x.copy(), the
\* sweep (written into x), cnt += 1, and the test that ends the loop.
Pass(s, xv) ==
    /\ steps < MaxIter
    /\ y' = heap[x]
    /\ heap' = [heap EXCEPT ![x] = xv]
    /\ steps' = steps + 1
    /\ trace' = [trace EXCEPT ![s] = Append(@, xv)]
    /\ IF NormWithinEps(xv, heap[x])
       THEN /\ ret' = [ret EXCEPT ![s] = Result("ok", xv, cnt + 1, steps + 1, checks, FALSE)]
            /\ prog' = Tail(prog) /\ pc' = "idle"
            /\ cnt' = cnt + 1
       ELSE /\ cnt' = cnt + 1
            /\ UNCHANGED <<ret, prog, pc>>
    /\ UNCHANGED <<given, w, A, b, x, i, j, k, l, u, r, p, checks, verdict,
                   zeroPivot, stage>>

CallJacobi ==
    /\ Calling("jacobi")
    /\ EnterWithCopies("jacobi_check")
    /\ UNCHANGED <<i, j, k, l, u, r, p, stage>>

JacobiCheck ==
    /\ pc = "jacobi_check"
    /\ Preflight("jacobi", check_jacobi_convergency(heap[A]), "jacobi_loop")

JacobiPass ==
    /\ pc = "jacobi_loop"
    /\ Pass("jacobi", JacobiSweep(heap[A], heap[b], heap[x]))

CallGaussSeidel ==
    /\ Calling("gauss_seidel")
    /\ EnterWithCopies("gauss_seidel_check")
    /\ UNCHANGED <<i, j, k, l, u, r, p, stage>>

GaussSeidelCheck ==
    /\ pc = "gauss_seidel_check"
    /\ Preflight("gauss_seidel", check_gauss_seidel_convergency(heap[A]),
                 "gauss_seidel_loop")

GaussSeidelPass ==
    /\ pc = "gauss_seidel_loop"
    /\ Pass("gauss_seidel", GaussSeidelSweep(heap[A], heap[b], heap[x]))

CallSor ==
    /\ Calling("successive_over_relaxation")
    /\ EnterWithCopies("sor_check")
    /\ UNCHANGED <<i, j, k, l, u, r, p, stage>>

SorCheck ==
    /\ pc = "sor_check"
    /\ Preflight("successive_over_relaxation",
                 check_successive_over_relaxation_convergency(heap[A], w), "sor_loop")

SorPass ==
    /\ pc = "sor_loop"
    /\ Pass("successive_over_relaxation", SorSweep(heap[A], heap[b], w, heap[x]))

\* ------------------------------------------------------------------------
\* conjugate_gradient(A, b, x0)
\* ------------------------------------------------------------------------
CallCg ==
    /\ Calling("conjugate_gradient")
    /\ EnterWithCopies("cg_check")
    /\ UNCHANGED <<i, j, k, l, u, r, p, stage>>

\* Lines 268-276: the check, then x = x0.copy(); r = b - dot(A, x); p = r;
\* cnt = 1.
CgCheck ==
    /\ pc = "cg_check"
    /\ LET v == check_symmetric_and_positive_definite_matrix(heap[A])
       IN  /\ checks' = checks + 1
           /\ verdict' = v
           /\ IF ~Proceeds(v)
              THEN /\ ret' = [ret EXCEPT !["conjugate_gradient"] =
                                 Result("sentinel", <<>>, 0, steps, checks + 1, FALSE)]
                   /\ prog' = Tail(prog) /\ pc' = "idle"
                   /\ UNCHANGED <<heap, x, cnt, r, p>>
              ELSE /\ x' = CopyRef("x0", "x_copy")
                   /\ heap' = [heap EXCEPT ![x'] = heap["x0"]]
                   /\ r' = VecSub(heap[b], MatVec(heap[A], heap["x0"]))
                   /\ p' = r'
                   /\ cnt' = 1
                   /\ pc' = "cg_loop"
                   /\ UNCHANGED <<prog, ret>>
    /\ UNCHANGED <<given, w, A, b, y, i, j, k, l, u, steps, zeroPivot, stage, trace>>

\* One pass of `while True:`, lines 278-287.  `x = x + dot(alpha, p)` binds
\* x to a new array; no array is written in place.
CgPass ==
    /\ pc = "cg_loop"
    /\ steps < MaxIter
    /\ LET c == CgStep(heap[A], heap[x], r, p)
       IN  /\ y' = heap[x]
           /\ x' = "x_new"
           /\ heap' = [heap EXCEPT !["x_new"] = c.x]
           /\ r' = c.r
           /\ p' = c.p
           /\ cnt' = cnt + 1
           /\ steps' = steps + 1
           /\ trace' = [trace EXCEPT !["conjugate_gradient"] = Append(@, c.x)]
           /\ IF NormWithinEps(c.x, heap[x])
              THEN /\ ret' = [ret EXCEPT !["conjugate_gradient"] =
                                 Result("ok", c.x, cnt + 1, steps + 1, checks, FALSE)]
                   /\ prog' = Tail(prog) /\ pc' = "idle"
              ELSE UNCHANGED <<ret, prog, pc>>
    /\ UNCHANGED <<given, w, A, b, i, j, k, l, u, checks, verdict, zeroPivot, stage>>

NextIterative ==
    \/ CallJacobi
    \/ JacobiCheck
    \/ JacobiPass
    \/ CallGaussSeidel
    \/ GaussSeidelCheck
    \/ GaussSeidelPass
    \/ CallSor
    \/ SorCheck
    \/ SorPass
    \/ CallCg
    \/ CgCheck
    \/ CgPass

Next == NextDirect \/ NextIterative

Spec == Init /\ [][Next]_vars
\* ------------------------------------------------------------------------
\* Properties
\* ------------------------------------------------------------------------
Direct == {"pivot_gauss", "lu_decomposition_doolittle"}

Iterative == Solvers \ Direct

VecEq(a, c) == Len(a) = Len(c) /\ \A t \in 1..Len(a) : Eq(a[t], c[t])

MatEq(P, Q) == Len(P) = Len(Q) /\ \A t \in 1..Len(P) : VecEq(P[t], Q[t])

Returned(s) == ret[s].kind # "none"

\* |A[i,i]| > sum of |A[i,j]|, j != i, in every row
StrictlyDiagonallyDominant(Am) ==
    \A t \in 1..Len(Am) :
        Lt(SumSeq([c \in 1..Len(Am) |-> IF c # t THEN AbsN(Am[t][c]) ELSE Zero]),
           AbsN(Am[t][t]))

\* symmetric with positive leading principal minors
PositiveDefinite(Am) ==
    /\ IsSymmetric(Am)
    /\ \A m \in 1..Len(Am) : Lt(Zero, Det(Principal(Am, 1..m)))

\* C1: the caller's A, b and x0 hold, in every state of every call, the
\* values the caller built: the solvers write only objects of their own.
CallerArraysKept ==
    /\ heap["A"] = given.A
    /\ heap["b"] = given.b
    /\ heap["x0"] = given.x0

\* C1 witness: pivot_gauss has returned after rewriting its private copies.
CallerArraysKeptWitness ==
    /\ ret["pivot_gauss"].kind = "ok"
    /\ pc = "idle"
    /\ heap["A_copy"] # given.A
    /\ heap["b_copy"] # given.b

\* C2: in an iterative solver the pre-flight check is evaluated at most once
\* per call and before any pass of the loop; a pass is only ever executed
\* after the verdict True; after the verdict False no iterate exists, no pass
\* is executed, the counter stays untouched, and the call returns the
\* sentinel having made zero passes.
PreflightGatesIteration ==
    /\ checks <= 1
    /\ steps > 0 => (checks = 1 /\ verdict = "True")
    /\ x # "none" => (checks = 1 /\ verdict = "True")
    /\ verdict = "False" => (steps = 0 /\ x = "none" /\ cnt = 0 /\ pc = "idle")
    /\ \A s \in Iterative :
          /\ ret[s].kind = "sentinel" =>
                (ret[s].iters = 0 /\ ret[s].checks = 1 /\ trace[s] = <<>>)
          /\ ret[s].kind = "ok" => (ret[s].iters >= 1 /\ ret[s].checks = 1)
          /\ trace[s] # <<>> => (Returned(s) => ret[s].kind = "ok")

\* C2 witness: a call has returned the sentinel after a False verdict.
PreflightGatesIterationWitness ==
    /\ verdict = "False"
    /\ \E s \in Iterative : ret[s].kind = "sentinel"

\* C3: a direct solver that divided by an exactly zero pivot does not return
\* a solution vector, and no returned vector holds a nan or an inf.
ZeroPivotIsAnError ==
    \A s \in Direct :
        ret[s].kind = "ok" => (~ret[s].zdiv /\ AllFinite(ret[s].x))

\* C4 as claimed: for every non-singular A both direct solvers return a
\* finite solution, the two agree, and each satisfies A x = b.
DirectSolversAgreeOnNonSingular ==
    (Returned("pivot_gauss") /\ Returned("lu_decomposition_doolittle")
        /\ ~Singular(given.A))
    => \A s \in Direct :
          /\ ret[s].kind = "ok"
          /\ AllFinite(ret[s].x)
          /\ VecEq(ret[s].x, ret["pivot_gauss"].x)
          /\ VecEq(MatVec(given.A, ret[s].x), given.b)

\* C4 amended: when neither solver divided by a zero pivot, both return a
\* finite solution, the two agree, and each satisfies A x = b.
DirectSolversAgreeWithoutZeroPivot ==
    (Returned("pivot_gauss") /\ Returned("lu_decomposition_doolittle")
        /\ ~ret["pivot_gauss"].zdiv /\ ~ret["lu_decomposition_doolittle"].zdiv)
    => \A s \in Direct :
          /\ ret[s].kind = "ok"
          /\ AllFinite(ret[s].x)
          /\ VecEq(ret[s].x, ret["pivot_gauss"].x)
          /\ VecEq(MatVec(given.A, ret[s].x), given.b)

\* C4 witness: both solvers returned without a zero pivot on a 3x3 system
\* whose first column made pivot_gauss swap rows.
DirectSolversAgreeWitness ==
    /\ Returned("pivot_gauss") /\ Returned("lu_decomposition_doolittle")
    /\ ~ret["pivot_gauss"].zdiv /\ ~ret["lu_decomposition_doolittle"].zdiv
    /\ Len(given.A) = 3
    /\ Lt(given.A[1][1], given.A[2][1])
    /\ ~IsZero(given.b[1])

\* C5: when every u[k, k] is non-zero, the factors the loop has built are a
\* unit lower triangular l and an upper triangular u with l u = A.
DoolittleFactorsReconstruct ==
    (pc = "lu_solve" /\ \A t \in 1..Len(u) : ~IsZero(u[t][t]))
    => /\ \A t \in 1..Len(l) : Eq(l[t][t], One)
       /\ \A t, c \in 1..Len(l) : c > t => IsZero(l[t][c])
       /\ \A t, c \in 1..Len(u) : c < t => IsZero(u[t][c])
       /\ MatEq(MatMul(l, u), given.A)

\* C5 witness: a 3x3 factorisation with non-zero pivots and a multiplier in
\* the last column of l.
DoolittleFactorsWitness ==
    /\ pc = "lu_solve"
    /\ Len(u) = 3
    /\ \A t \in 1..Len(u) : ~IsZero(u[t][t])
    /\ ~IsZero(l[2][1]) /\ ~IsZero(l[3][2])

\* C6: on a symmetric positive-definite n x n matrix conjugate_gradient
\* terminates (its iterate never becomes nan, from which the stopping test
\* can never pass) and the count it returns is at most n.
ConjugateGradientWithinN ==
    PositiveDefinite(given.A) =>
        /\ pc = "cg_loop" => ~HasNaN(heap[x])
        /\ ret["conjugate_gradient"].kind = "ok" =>
              ret["conjugate_gradient"].cnt <= Len(given.A)

\* C7 as claimed: on a strictly diagonally dominant A, gauss_seidel returns
\* a count no larger than jacobi's.
GaussSeidelNoSlowerThanJacobi ==
    (StrictlyDiagonallyDominant(given.A)
        /\ ret["jacobi"].kind = "ok" /\ ret["gauss_seidel"].kind = "ok")
    => ret["gauss_seidel"].cnt <= ret["jacobi"].cnt

\* C7 amended: on a strictly diagonally dominant A with no entry below the
\* diagonal, gauss_seidel and jacobi return the same count (and the same
\* iterates): a sweep of gauss_seidel then reads only components it has not
\* yet updated.
GaussSeidelEqualsJacobiOnUpperTriangular ==
    (StrictlyDiagonallyDominant(given.A)
        /\ (\A t, c \in 1..Len(given.A) : c < t => IsZero(given.A[t][c]))
        /\ Returned("jacobi") /\ Returned("gauss_seidel"))
    => /\ ret["jacobi"].kind = "ok" /\ ret["gauss_seidel"].kind = "ok"
       /\ ret["gauss_seidel"].cnt = ret["jacobi"].cnt
       /\ ret["gauss_seidel"].cnt <= ret["jacobi"].cnt
       /\ VecEq(ret["gauss_seidel"].x, ret["jacobi"].x)

\* C7 witness: both returned on an upper triangular, non-diagonal, strictly
\* dominant matrix after more than one pass.
GaussSeidelEqualsJacobiWitness ==
    /\ StrictlyDiagonallyDominant(given.A)
    /\ Len(given.A) = 2
    /\ IsZero(given.A[2][1]) /\ ~IsZero(given.A[1][2])
    /\ ret["jacobi"].kind = "ok" /\ ret["gauss_seidel"].kind = "ok"
    /\ ret["gauss_seidel"].cnt >= 2

\* C8: the count an iterative solver returns is the number of passes of its
\* loop body in that call.
CountIsNumberOfPasses ==
    \A s \in Iterative : ret[s].kind = "ok" => ret[s].cnt = ret[s].iters

\* C9: with w = 1 the iteration matrix and the verdict of the SOR check are
\* those of the Gauss-Seidel check, every iterate of
\* successive_over_relaxation is the iterate gauss_seidel produced in the
\* same pass, and the two calls return the same result and count.
SorWithUnitFactorIsGaussSeidel ==
    w = One =>
        /\ pc = "sor_check" =>
              /\ check_successive_over_relaxation_convergency(heap[A], w)
                    = check_gauss_seidel_convergency(heap[A])
              /\ check_gauss_seidel_convergency(heap[A]) # "LinAlgError" =>
                    MatEq(SorMatrix(heap[A], w), GaussSeidelMatrix(heap[A]))
        /\ (Returned("gauss_seidel") /\ prog # <<>>
               /\ Head(prog) = "successive_over_relaxation") =>
              LET ts == trace["successive_over_relaxation"]
                  tg == trace["gauss_seidel"]
              IN  /\ Len(ts) <= Len(tg)
                  /\ \A t \in 1..Len(ts) : VecEq(ts[t], tg[t])
        /\ (Returned("gauss_seidel") /\ Returned("successive_over_relaxation")) =>
              /\ ret["successive_over_relaxation"].kind = ret["gauss_seidel"].kind
              /\ ret["successive_over_relaxation"].cnt = ret["gauss_seidel"].cnt
              /\ VecEq(ret["successive_over_relaxation"].x, ret["gauss_seidel"].x)
              /\ Len(trace["successive_over_relaxation"]) = Len(trace["gauss_seidel"])

\* C9 witness: with w = 1 both returned a solution after at least two
\* passes on a matrix with an entry below the diagonal.
SorWithUnitFactorWitness ==
    /\ w = One
    /\ ret["gauss_seidel"].kind = "ok"
    /\ ret["successive_over_relaxation"].kind = "ok"
    /\ ret["successive_over_relaxation"].cnt >= 2
    /\ Len(given.A) = 2
    /\ ~IsZero(given.A[2][1])
    /\ ~IsZero(given.x0[1])

\* C10: whenever pivot_gauss has just computed a multiplier in column i, its
\* divisor A[i, i] is the largest of the entries that rows i..n-1 held in
\* column i when stage i began.
PivotIsColumnMaximum ==
    (pc \in {"pg_inner", "pg_back"} /\ stage.divided)
    => \A t \in 1..Len(stage.col) : Le(stage.col[t], stage.pivot)

====
